---------------------------- MODULE Spec2Model ----------------------------
(***************************************************************************)
(* Model of the decision engine of the quality screener (src/engine.py):   *)
(* compute_actions normalises the cells of a table, classifies every row   *)
(* into one ACTION, derives BUY_SIGNAL / SELL_SIGNAL and sorts the table.  *)
(*                                                                         *)
(* Representation.                                                         *)
(*  - A text is a sequence of one-character strings.                       *)
(*  - A float is a record [nan, v]; v counts units of 1/Scale, so that     *)
(*    -0.25 is -2500 and -35 is -350000.  Sampled inputs carry at most two *)
(*    decimals, which keeps x / 100.0 exact.                               *)
(*  - A raw cell is a tagged value: text, Python int, float, bool or a     *)
(*    missing value (None / NaN).                                          *)
(*  - A reason string is the sequence of the pieces it is concatenated     *)
(*    from ("pass_debt", " / ", "pass_fcf").                               *)
(***************************************************************************)
EXTENDS Integers, Sequences, FiniteSets

\* df    the input table: a sequence of rows of raw cells
\* cols  the columns df has (a row holds NA in a column the table lacks)
\* cfg   the configuration
\* out   the table compute_actions returned last (<<>> before the first run)
\* run   how many times compute_actions has run
\* first the table the first run returned, once it has been fed back
VARIABLES df, cols, cfg, out, run, first

vars == <<df, cols, cfg, out, run, first>>

\* Units per 1.0 of the fixed-point floats.
Scale == 100 * 100

--------------------------------------------------------------------------
\* Floats

NaN == [nan |-> TRUE, v |-> 0]

Num(x) == [nan |-> FALSE, v |-> x]

\* pd.isna / pd.notna on a float
notna(x) == ~x.nan

--------------------------------------------------------------------------
\* Raw cells

Str(s) == [t |-> "str", s |-> s, v |-> 0, b |-> FALSE]

PyInt(n) == [t |-> "int", s |-> <<>>, v |-> n, b |-> FALSE]

PyFloat(x) == [t |-> "float", s |-> <<>>, v |-> x, b |-> FALSE]

PyBool(b) == [t |-> "bool", s |-> <<>>, v |-> 0, b |-> b]

NA == [t |-> "na", s |-> <<>>, v |-> 0, b |-> FALSE]

\* The cell that holds float x in a table (NaN is a missing value).
FloatCell(x) == IF x.nan THEN NA ELSE PyFloat(x.v)

--------------------------------------------------------------------------
\* Text helpers (str.strip, str.lower, str.replace, str(int), float(str))

Whitespace == {" ", "\t", "\n"}

Digits == {"0", "1", "2", "3", "4", "5", "6", "7", "8", "9"}

RECURSIVE LStrip(_)
LStrip(s) ==
    IF s # <<>> /\ Head(s) \in Whitespace THEN LStrip(Tail(s)) ELSE s

RECURSIVE RStrip(_)
RStrip(s) ==
    IF s # <<>> /\ s[Len(s)] \in Whitespace
    THEN RStrip(SubSeq(s, 1, Len(s) - 1))
    ELSE s

Strip(s) == RStrip(LStrip(s))

LowerChar(c) ==
    CASE c = "A" -> "a" [] c = "B" -> "b" [] c = "C" -> "c" [] c = "D" -> "d"
      [] c = "E" -> "e" [] c = "F" -> "f" [] c = "G" -> "g" [] c = "H" -> "h"
      [] c = "I" -> "i" [] c = "J" -> "j" [] c = "K" -> "k" [] c = "L" -> "l"
      [] c = "M" -> "m" [] c = "N" -> "n" [] c = "O" -> "o" [] c = "P" -> "p"
      [] c = "Q" -> "q" [] c = "R" -> "r" [] c = "S" -> "s" [] c = "T" -> "t"
      [] c = "U" -> "u" [] c = "V" -> "v" [] c = "W" -> "w" [] c = "X" -> "x"
      [] c = "Y" -> "y" [] c = "Z" -> "z" [] OTHER -> c

Lower(s) == [i \in 1..Len(s) |-> LowerChar(s[i])]

\* s.replace(c, "")
RECURSIVE Remove(_, _)
Remove(s, c) ==
    IF s = <<>> THEN <<>>
    ELSE IF Head(s) = c THEN Remove(Tail(s), c)
    ELSE <<Head(s)>> \o Remove(Tail(s), c)

\* s.replace(c, d) for one-character c and d
Replace(s, c, d) == [i \in 1..Len(s) |-> IF s[i] = c THEN d ELSE s[i]]

DigitChar(n) ==
    CASE n = 0 -> "0" [] n = 1 -> "1" [] n = 2 -> "2" [] n = 3 -> "3"
      [] n = 4 -> "4" [] n = 5 -> "5" [] n = 6 -> "6" [] n = 7 -> "7"
      [] n = 8 -> "8" [] n = 9 -> "9"

DigitVal(c) ==
    CASE c = "0" -> 0 [] c = "1" -> 1 [] c = "2" -> 2 [] c = "3" -> 3
      [] c = "4" -> 4 [] c = "5" -> 5 [] c = "6" -> 6 [] c = "7" -> 7
      [] c = "8" -> 8 [] c = "9" -> 9

RECURSIVE NatStr(_)
NatStr(n) == IF n < 10 THEN <<DigitChar(n)>> ELSE NatStr(n \div 10) \o <<DigitChar(n % 10)>>

\* str(n) of a Python int
IntStr(n) == IF n < 0 THEN <<"-">> \o NatStr(-n) ELSE NatStr(n)

RECURSIVE DigitsVal(_)
DigitsVal(s) ==
    IF s = <<>> THEN 0
    ELSE DigitsVal(SubSeq(s, 1, Len(s) - 1)) * 10 + DigitVal(s[Len(s)])

RECURSIVE Pow10(_)
Pow10(k) == IF k = 0 THEN 1 ELSE 10 * Pow10(k - 1)

\* Number of decimals a float keeps: Scale = 10 ^ ScaleDigits.
ScaleDigits == CHOOSE k \in 0..9 : Pow10(k) = Scale

\* The fraction .d1d2... in units of 1/Scale (decimals past ScaleDigits are cut).
FracVal(s) ==
    IF Len(s) <= ScaleDigits
    THEN DigitsVal(s) * Pow10(ScaleDigits - Len(s))
    ELSE DigitsVal(SubSeq(s, 1, ScaleDigits))

\* float(s) for the decimal notation [sign] digits [. digits]; every other
\* text raises ValueError, reported here as NaN (the caller maps it to NaN).
\* Exponents, "inf" and digit-group underscores are outside the sampled inputs.
ParseFloat(s) ==
    LET t    == Strip(s)
        neg  == t # <<>> /\ Head(t) = "-"
        body == IF t # <<>> /\ Head(t) \in {"+", "-"} THEN Tail(t) ELSE t
        dots == {i \in 1..Len(body) : body[i] = "."}
        ok   == /\ body # <<>>
                /\ \A i \in 1..Len(body) : body[i] \in Digits \cup {"."}
                /\ Cardinality(dots) <= 1
                /\ \E i \in 1..Len(body) : body[i] \in Digits
        dot  == IF dots = {} THEN Len(body) + 1 ELSE CHOOSE i \in dots : TRUE
        ip   == SubSeq(body, 1, dot - 1)
        fp   == SubSeq(body, dot + 1, Len(body))
        mag  == DigitsVal(ip) * Scale + FracVal(fp)
    IN  IF ok THEN Num(IF neg THEN -mag ELSE mag) ELSE NaN

--------------------------------------------------------------------------
\* Value normaliser (engine.py, _to_bool / _to_num / _normalize_drawdown)

Affirmative ==
    { <<"t","r","u","e">>, <<"1">>, <<"y","e","s">>, <<"y">>,
      <<"s","i","m">>, <<"s">>, <<"o","k">> }

\* str(x) of a raw cell, as _to_bool sees it.  The text of a float always
\* carries a "." (or an exponent), so it is never an affirmative word; only
\* its not being one matters, and it is rendered as its integer part and ".".
PyStr(x) ==
    CASE x.t = "str"   -> x.s
      [] x.t = "int"   -> IntStr(x.v)
      [] x.t = "float" -> IntStr(x.v \div Scale) \o <<".">>
      [] OTHER         -> <<>>

_to_bool(x) ==
    IF x.t = "na" THEN FALSE
    ELSE IF x.t = "bool" THEN x.b
    ELSE Lower(Strip(PyStr(x))) \in Affirmative

_to_num(x) ==
    IF x.t = "na" THEN NaN
    ELSE IF x.t = "int" THEN Num(x.v * Scale)
    ELSE IF x.t = "float" THEN Num(x.v)
    ELSE IF x.t = "bool" THEN Num(IF x.b THEN Scale ELSE 0)
    ELSE ParseFloat(Replace(Remove(Strip(x.s), "%"), ",", "."))

_normalize_drawdown(x) ==
    IF x.nan THEN NaN
    ELSE IF x.v <= -1 * Scale THEN Num(x.v \div 100)
    ELSE x

--------------------------------------------------------------------------
\* Columns.  Of the recognised columns, those that no rule reads (name,
\* sector, drawdown_trigger, price and the seven metric columns) are converted
\* like their kind and then only carried along; they are left out of a row.

BOOL_COLS ==
    { "pass_fcf", "pass_roic", "pass_payout", "pass_debt", "pass_interest_cover",
      "QUALITY_PASS", "ENTRY_PERMITTED", "BUY_CANDIDATE" }

NUM_COLS == { "drawdown_from_52w_high", "score" }

TEXT_COLS == { "ticker" }

EXPECTED_COLUMNS == TEXT_COLS \cup BOOL_COLS \cup NUM_COLS

\* r[col] if col in r.index else default
_safe_get(r, col, default) == IF col \in r.index THEN r[col] ELSE default

\* sep.join(xs), as the sequence of its pieces
RECURSIVE Join(_, _)
Join(sep, xs) ==
    IF Len(xs) <= 1 THEN xs
    ELSE <<Head(xs), sep>> \o Join(sep, Tail(xs))

--------------------------------------------------------------------------
\* Rule evaluator

_passes_required(r, c) ==
       (IF c.REQUIRE_PASS_DEBT /\ ~_safe_get(r, "pass_debt", FALSE)
        THEN <<"pass_debt">> ELSE <<>>)
    \o (IF c.REQUIRE_PASS_INTEREST /\ ~_safe_get(r, "pass_interest_cover", FALSE)
        THEN <<"pass_interest_cover">> ELSE <<>>)
    \o (IF c.REQUIRE_PASS_FCF /\ ~_safe_get(r, "pass_fcf", FALSE)
        THEN <<"pass_fcf">> ELSE <<>>)
    \o (IF c.REQUIRE_PASS_ROIC /\ ~_safe_get(r, "pass_roic", FALSE)
        THEN <<"pass_roic">> ELSE <<>>)
    \o (IF c.REQUIRE_PASS_PAYOUT /\ ~_safe_get(r, "pass_payout", FALSE)
        THEN <<"pass_payout">> ELSE <<>>)

\* Mutant of sell_signal: the required checks are looked at before QUALITY_PASS.
sell_signal_ChecksFirst(r, c) ==
    LET required_failed == _passes_required(r, c)
    IN  IF required_failed # <<>>
        THEN [s |-> TRUE, rs |-> Join(" / ", required_failed)]
        ELSE IF ~_safe_get(r, "QUALITY_PASS", TRUE)
        THEN [s |-> TRUE, rs |-> <<"QUALITY_PASS=FALSE">>]
        ELSE [s |-> FALSE, rs |-> <<>>]

sell_signal(r, c) ==
    IF ~_safe_get(r, "QUALITY_PASS", TRUE)
    THEN [s |-> TRUE, rs |-> <<"QUALITY_PASS=FALSE">>]
    ELSE LET required_failed == _passes_required(r, c)
         IN  IF required_failed # <<>>
             THEN [s |-> TRUE, rs |-> Join(" / ", required_failed)]
             ELSE [s |-> FALSE, rs |-> <<>>]

\* Mutant of buy_gate: the drawdown gate is left out.
buy_gate_NoDrawdownGate(r, c) ==
    IF ~_safe_get(r, "ENTRY_PERMITTED", FALSE)
    THEN [b |-> FALSE, rb |-> <<"ENTRY_PERMITTED=FALSE">>]
    ELSE IF ~_safe_get(r, "QUALITY_PASS", FALSE)
    THEN [b |-> FALSE, rb |-> <<"QUALITY_PASS=FALSE">>]
    ELSE
    LET buy_candidate == _safe_get(r, "BUY_CANDIDATE", FALSE)
        score == _safe_get(r, "score", NaN)
        score_ok == notna(score) /\ score.v >= c.SCORE_BUY_MIN
        required_failed == _passes_required(r, c)
    IN  IF ~(buy_candidate \/ score_ok)
        THEN [b |-> FALSE, rb |-> <<"NO_BUY_CANDIDATE_OR_SCORE">>]
        ELSE IF required_failed # <<>>
        THEN IF c.ALLOW_SPECULATIVE
             THEN [b |-> TRUE,
                   rb |-> <<"ENTRY_OK_WITH_FLAGS:">> \o Join(",", required_failed)]
             ELSE [b |-> FALSE,
                   rb |-> <<"FAILED_REQUIRED:">> \o Join(",", required_failed)]
        ELSE [b |-> TRUE, rb |-> <<"ENTRY_OK">>]

\* The reason of the drawdown gate formats dd as a percentage; decide drops
\* the reason of a closed gate, so the formatted number is left symbolic.
buy_gate(r, c) ==
    IF ~_safe_get(r, "ENTRY_PERMITTED", FALSE)
    THEN [b |-> FALSE, rb |-> <<"ENTRY_PERMITTED=FALSE">>]
    ELSE IF ~_safe_get(r, "QUALITY_PASS", FALSE)
    THEN [b |-> FALSE, rb |-> <<"QUALITY_PASS=FALSE">>]
    ELSE
    LET buy_candidate == _safe_get(r, "BUY_CANDIDATE", FALSE)
        score == _safe_get(r, "score", NaN)
        score_ok == notna(score) /\ score.v >= c.SCORE_BUY_MIN
        dd == _safe_get(r, "dd_norm", NaN)
        required_failed == _passes_required(r, c)
    IN  IF ~(buy_candidate \/ score_ok)
        THEN [b |-> FALSE, rb |-> <<"NO_BUY_CANDIDATE_OR_SCORE">>]
        ELSE IF notna(dd) /\ dd.v > c.DD_BUY
        THEN [b |-> FALSE, rb |-> <<"INSUFFICIENT_DRAWDOWN(", "{dd:.0%}", ")">>]
        ELSE IF required_failed # <<>>
        THEN IF c.ALLOW_SPECULATIVE
             THEN [b |-> TRUE,
                   rb |-> <<"ENTRY_OK_WITH_FLAGS:">> \o Join(",", required_failed)]
             ELSE [b |-> FALSE,
                   rb |-> <<"FAILED_REQUIRED:">> \o Join(",", required_failed)]
        ELSE [b |-> TRUE, rb |-> <<"ENTRY_OK">>]

--------------------------------------------------------------------------
\* Action classifier

Decision(a, rb, rs, fc) ==
    [ACTION |-> a, REASON_BUY |-> rb, REASON_SELL |-> rs, FAILED_CHECKS |-> fc]

WATCH_COLS == <<"pass_debt", "pass_interest_cover", "pass_fcf", "pass_payout", "pass_roic">>

\* Mutant of watch_flags: the flags are collected whatever ENTRY_PERMITTED is.
watch_flags_NoEntryGuard(r) ==
    SelectSeq(WATCH_COLS, LAMBDA col : col \in r.index /\ r[col] = FALSE)

watch_flags(r) ==
    IF _safe_get(r, "ENTRY_PERMITTED", FALSE)
    THEN SelectSeq(WATCH_COLS, LAMBDA col : col \in r.index /\ r[col] = FALSE)
    ELSE <<>>

\* Mutant of decide: STRONG BUY asks for a drawdown strictly below DD_STRONG.
decide_StrictStrong(r, c) ==
    LET sell == sell_signal(r, c)
        gate == buy_gate(r, c)
        rb == gate.rb
        dd == _safe_get(r, "dd_norm", NaN)
        flags == IF rb # <<>> /\ Head(rb) = "ENTRY_OK_WITH_FLAGS:" THEN Tail(rb) ELSE <<>>
        failed == IF flags # <<>>
                  THEN [i \in 1..Len(flags) |-> IF flags[i] = "," THEN " / " ELSE flags[i]]
                  ELSE <<>>
        watch == watch_flags(r)
    IN  IF sell.s THEN Decision("REVIEW SELL", <<>>, sell.rs, sell.rs)
        ELSE IF gate.b
        THEN IF notna(dd) /\ dd.v < c.DD_STRONG /\ failed = <<>>
             THEN Decision("STRONG BUY", rb, <<>>, <<>>)
             ELSE IF failed # <<>> /\ c.ALLOW_SPECULATIVE
             THEN Decision("SPECULATIVE / WATCH", rb, <<>>, failed)
             ELSE Decision("BUY", rb, <<>>, <<>>)
        ELSE IF watch # <<>>
        THEN Decision("WATCH", <<>>, Join(" / ", watch), Join(" / ", watch))
        ELSE Decision("HOLD", <<>>, <<>>, <<>>)

decide(r, c) ==
    LET sell == sell_signal(r, c)
        gate == buy_gate(r, c)
        rb == gate.rb
        dd == _safe_get(r, "dd_norm", NaN)
        flags == IF rb # <<>> /\ Head(rb) = "ENTRY_OK_WITH_FLAGS:" THEN Tail(rb) ELSE <<>>
        failed == IF flags # <<>>
                  THEN [i \in 1..Len(flags) |-> IF flags[i] = "," THEN " / " ELSE flags[i]]
                  ELSE <<>>
        watch == watch_flags(r)
    IN  IF sell.s THEN Decision("REVIEW SELL", <<>>, sell.rs, sell.rs)
        ELSE IF gate.b
        THEN IF notna(dd) /\ dd.v <= c.DD_STRONG /\ failed = <<>>
             THEN Decision("STRONG BUY", rb, <<>>, <<>>)
             ELSE IF failed # <<>> /\ c.ALLOW_SPECULATIVE
             THEN Decision("SPECULATIVE / WATCH", rb, <<>>, failed)
             ELSE Decision("BUY", rb, <<>>, <<>>)
        ELSE IF watch # <<>>
        THEN Decision("WATCH", <<>>, Join(" / ", watch), Join(" / ", watch))
        ELSE Decision("HOLD", <<>>, <<>>, <<>>)

--------------------------------------------------------------------------
\* compute_actions

DECISION_COLS ==
    { "ACTION", "REASON_BUY", "REASON_SELL", "FAILED_CHECKS", "BUY_SIGNAL", "SELL_SIGNAL" }

\* Mutant of Normalize: the drawdown column itself is overwritten with the
\* normalised drawdown.
Normalize_DrawdownInPlace(r, index) ==
    LET conv == [c \in EXPECTED_COLUMNS |->
                   IF c \in BOOL_COLS THEN (c \in index /\ _to_bool(r[c]))
                   ELSE IF c \in NUM_COLS
                   THEN (IF c \in index THEN _to_num(r[c]) ELSE NaN)
                   ELSE (IF c \in index THEN Strip(PyStr(r[c])) ELSE <<>>)]
        dd   == IF "drawdown_from_52w_high" \in index
                THEN _normalize_drawdown(conv["drawdown_from_52w_high"])
                ELSE NaN
    IN  [c \in EXPECTED_COLUMNS \cup {"index", "dd_norm"} |->
           IF c = "index" THEN index \cup {"dd_norm"}
           ELSE IF c \in {"dd_norm", "drawdown_from_52w_high"} THEN dd
           ELSE conv[c]]

\* Type conversion of the columns the table has, and dd_norm.  A column the
\* table lacks holds a placeholder no rule reads (_safe_get asks r.index).
Normalize(r, index) ==
    LET conv == [c \in EXPECTED_COLUMNS |->
                   IF c \in BOOL_COLS THEN (c \in index /\ _to_bool(r[c]))
                   ELSE IF c \in NUM_COLS
                   THEN (IF c \in index THEN _to_num(r[c]) ELSE NaN)
                   ELSE (IF c \in index THEN Strip(PyStr(r[c])) ELSE <<>>)]
    IN  [c \in EXPECTED_COLUMNS \cup {"index", "dd_norm"} |->
           IF c = "index" THEN index \cup {"dd_norm"}
           ELSE IF c = "dd_norm"
           THEN (IF "drawdown_from_52w_high" \in index
                 THEN _normalize_drawdown(conv["drawdown_from_52w_high"])
                 ELSE NaN)
           ELSE conv[c]]

\* Mutant of BUY_SIGNAL: STRONG BUY is forgotten.
BUY_SIGNAL_OnlyBuy(action) == action = "BUY"

BUY_SIGNAL(action) == action \in {"BUY", "STRONG BUY"}

SELL_SIGNAL(action) == action = "REVIEW SELL"

\* The row with its decision and signal columns appended.
Classify(n, c) ==
    LET d == decide(n, c)
    IN  [f \in DOMAIN n \cup DECISION_COLS |->
           IF f = "BUY_SIGNAL" THEN BUY_SIGNAL(d.ACTION)
           ELSE IF f = "SELL_SIGNAL" THEN SELL_SIGNAL(d.ACTION)
           ELSE IF f \in DECISION_COLS THEN d[f]
           ELSE n[f]]

\* Mutant of Precedes: the score ascending.
Precedes_ScoreAscending(a, b, by_score) ==
    IF a.BUY_SIGNAL # b.BUY_SIGNAL THEN a.BUY_SIGNAL
    ELSE IF a.SELL_SIGNAL # b.SELL_SIGNAL THEN a.SELL_SIGNAL
    ELSE /\ by_score
         /\ notna(a.score)
         /\ (b.score.nan \/ a.score.v < b.score.v)

\* Row a sorts strictly before row b: descending on every key, NaN last.
Precedes(a, b, by_score) ==
    IF a.BUY_SIGNAL # b.BUY_SIGNAL THEN a.BUY_SIGNAL
    ELSE IF a.SELL_SIGNAL # b.SELL_SIGNAL THEN a.SELL_SIGNAL
    ELSE /\ by_score
         /\ notna(a.score)
         /\ (b.score.nan \/ a.score.v > b.score.v)

RECURSIVE Insert(_, _, _)
Insert(x, s, by_score) ==
    IF s = <<>> THEN <<x>>
    ELSE IF Precedes(x, Head(s), by_score) THEN <<x>> \o s
    ELSE <<Head(s)>> \o Insert(x, Tail(s), by_score)

\* DataFrame.sort_values on several keys: a stable sort.
RECURSIVE sort_values(_, _)
sort_values(rows, by_score) ==
    IF rows = <<>> THEN <<>>
    ELSE Insert(rows[Len(rows)],
                sort_values(SubSeq(rows, 1, Len(rows) - 1), by_score),
                by_score)

compute_actions(d, index, c) ==
    sort_values([i \in 1..Len(d) |-> Classify(Normalize(d[i], index), c)],
                "score" \in index)

\* The recognised columns of an output row, as the cells of an input row.
Recognized(o, index) ==
    [c \in EXPECTED_COLUMNS |->
       IF c \notin index THEN NA
       ELSE IF c \in BOOL_COLS THEN PyBool(o[c])
       ELSE IF c \in NUM_COLS THEN FloatCell(o[c])
       ELSE Str(o[c])]

--------------------------------------------------------------------------
\* Sampled inputs

\* Rows of the largest sampled table.
MaxRows == 3

PASS_COLS == {"pass_debt", "pass_interest_cover", "pass_fcf", "pass_roic", "pass_payout"}

\* One spelling of true and one of false per boolean column, between them
\* every kind of cell _to_bool tells apart.
BoolCell(c, b) ==
    CASE c = "QUALITY_PASS"        -> IF b THEN Str(<<"T","R","U","E">>) ELSE Str(<<"F","A","L","S","E">>)
      [] c = "ENTRY_PERMITTED"     -> IF b THEN Str(<<" ","S","i","m"," ">>) ELSE Str(<<"n","a","o">>)
      [] c = "BUY_CANDIDATE"       -> IF b THEN PyBool(TRUE) ELSE NA
      [] c = "pass_debt"           -> IF b THEN Str(<<"1">>) ELSE Str(<<"0">>)
      [] c = "pass_interest_cover" -> IF b THEN Str(<<"y","e","s">>) ELSE Str(<<"n","o">>)
      [] c = "pass_fcf"            -> IF b THEN Str(<<"O","K">>) ELSE Str(<<>>)
      [] c = "pass_roic"           -> IF b THEN Str(<<"Y">>) ELSE PyFloat(Scale)
      [] c = "pass_payout"         -> IF b THEN PyInt(1) ELSE PyBool(FALSE)

\* score: empty, 65, 70,0
ScoreBlank == Str(<<>>)

ScoreLow == PyInt(65)

ScoreMin == Str(<<"7","0",",","0">>)

ScoreCells == {ScoreBlank, ScoreLow, ScoreMin}

\* drawdown_from_52w_high: empty, -0.05, -0,25, -30%, -35, -100
DdBlank == Str(<<>>)

DdShallow == PyFloat(-500)

DdBuy == Str(<<"-","0",",","2","5">>)

DdEdge == Str(<<" ","-","3","0","%">>)

DdDeep == Str(<<"-","3","5">>)

DdFull == PyInt(-100)

DdCells == {DdBlank, DdShallow, DdBuy, DdEdge, DdDeep, DdFull}

\* Cells that stand for a missing or unparsable value.
BadCells == {NA, Str(<<>>), Str(<<"n","/","a">>)}

Ticker(i) == Str(<<" ", "T", DigitChar(i)>>)

\* A row of raw cells; fl gives the five quality flags.
MkRow(i, qp, ep, bc, fl, sc, dd) ==
    [c \in EXPECTED_COLUMNS |->
       CASE c = "ticker"                 -> Ticker(i)
         [] c = "QUALITY_PASS"           -> BoolCell(c, qp)
         [] c = "ENTRY_PERMITTED"        -> BoolCell(c, ep)
         [] c = "BUY_CANDIDATE"          -> BoolCell(c, bc)
         [] c = "score"                  -> sc
         [] c = "drawdown_from_52w_high" -> dd
         [] OTHER                        -> BoolCell(c, fl[c])]

\* The row of a table that has only the columns of index.
Project(r, index) == [c \in EXPECTED_COLUMNS |-> IF c \in index THEN r[c] ELSE NA]

Toggles == [PASS_COLS -> BOOLEAN]

AllPass == [c \in PASS_COLS |-> TRUE]

Failing(cs) == [c \in PASS_COLS |-> c \notin cs]

\* The fallback toggles of app.py: debt, interest and fcf required.
DefaultToggles == Failing({"pass_roic", "pass_payout"})

NoToggles == Failing(PASS_COLS)

MkCfg(tg, allow, dd_buy, dd_strong) ==
    [ SCORE_BUY_MIN         |-> 70 * Scale,
      DD_BUY                |-> dd_buy,
      DD_STRONG             |-> dd_strong,
      REQUIRE_PASS_DEBT     |-> tg["pass_debt"],
      REQUIRE_PASS_INTEREST |-> tg["pass_interest_cover"],
      REQUIRE_PASS_FCF      |-> tg["pass_fcf"],
      REQUIRE_PASS_ROIC     |-> tg["pass_roic"],
      REQUIRE_PASS_PAYOUT   |-> tg["pass_payout"],
      ALLOW_SPECULATIVE     |-> allow ]

\* (DD_BUY, DD_STRONG): the defaults -0.20 / -0.30, and a pair with
\* DD_STRONG > DD_BUY.
Thresholds == { <<-2000, -3000>>, <<-3000, -2000>> }

DefaultCfg == MkCfg(DefaultToggles, TRUE, -2000, -3000)

\* Rows the sampled tables of several rows are made of: a STRONG BUY, two
\* BUYs, a REVIEW SELL, a HOLD and a WATCH under DefaultCfg.
RowPalette(i) ==
    { MkRow(i, TRUE, TRUE, TRUE, AllPass, ScoreMin, DdDeep),
      MkRow(i, TRUE, TRUE, TRUE, AllPass, ScoreBlank, DdBuy),
      MkRow(i, TRUE, TRUE, TRUE, AllPass, ScoreLow, DdBlank),
      MkRow(i, FALSE, TRUE, TRUE, AllPass, ScoreMin, DdDeep),
      MkRow(i, TRUE, FALSE, TRUE, AllPass, ScoreLow, DdBuy),
      MkRow(i, TRUE, TRUE, FALSE, Failing({"pass_roic"}), ScoreBlank, DdBuy) }

Tables(n) == { t \in [1..n -> UNION {RowPalette(i) : i \in 1..n}] :
                 \A i \in 1..n : t[i] \in RowPalette(i) }

Start(d, index, c) ==
    /\ df = [i \in 1..Len(d) |-> Project(d[i], index)]
    /\ cols = index
    /\ cfg = c
    /\ out = <<>>
    /\ run = 0
    /\ first = <<>>

\* One row, every combination of quality flags and REQUIRE_PASS_* toggles.
InitChecks ==
    \E fl \in Toggles, tg \in Toggles, qp \in BOOLEAN, ep \in BOOLEAN,
       allow \in BOOLEAN, dd \in {DdBuy, DdDeep} :
        Start(<<MkRow(1, qp, ep, TRUE, fl, ScoreBlank, dd)>>, EXPECTED_COLUMNS,
              MkCfg(tg, allow, -2000, -3000))

\* One row, every combination of the gates, scores, drawdowns and thresholds.
InitGates ==
    \E qp \in BOOLEAN, ep \in BOOLEAN, bc \in BOOLEAN, sc \in ScoreCells,
       dd \in DdCells, th \in Thresholds, allow \in BOOLEAN,
       fl \in {AllPass, Failing({"pass_debt"}), Failing({"pass_fcf"}), Failing({"pass_roic"})},
       tg \in {DefaultToggles, NoToggles} :
        Start(<<MkRow(1, qp, ep, bc, fl, sc, dd)>>, EXPECTED_COLUMNS,
              MkCfg(tg, allow, th[1], th[2]))

\* One row of a table that lacks one column.
InitColumns ==
    \E qp \in BOOLEAN, ep \in BOOLEAN, bc \in BOOLEAN, sc \in {ScoreBlank, ScoreMin},
       dd \in {DdShallow, DdBuy, DdDeep},
       fl \in {AllPass, Failing({"pass_fcf"})},
       tg \in {DefaultToggles, NoToggles},
       missing \in BOOL_COLS \cup NUM_COLS :
        Start(<<MkRow(1, qp, ep, bc, fl, sc, dd)>>, EXPECTED_COLUMNS \ {missing},
              MkCfg(tg, TRUE, -2000, -3000))

\* Tables of two to MaxRows rows, with and without the score column.
InitTables ==
    \E n \in 2..MaxRows :
      \E t \in Tables(n), index \in {EXPECTED_COLUMNS, EXPECTED_COLUMNS \ {"score"}} :
        Start(t, index, DefaultCfg)

Init == InitChecks \/ InitGates \/ InitColumns \/ InitTables

--------------------------------------------------------------------------
\* Operations

\* out = compute_actions(df, cfg)
ComputeActions ==
    /\ run = 0
    /\ out' = compute_actions(df, cols, cfg)
    /\ run' = 1
    /\ UNCHANGED <<df, cols, cfg, first>>

\* compute_actions run again, with the same configuration, on the recognised
\* columns of its own output; first keeps what the first run returned.
Reapply ==
    /\ run = 1
    /\ out' = compute_actions([i \in 1..Len(out) |-> Recognized(out[i], cols)], cols, cfg)
    /\ first' = out
    /\ run' = 2
    /\ UNCHANGED <<df, cols, cfg>>

Next == ComputeActions \/ Reapply

Spec == Init /\ [][Next]_vars

--------------------------------------------------------------------------
\* Vocabulary of the properties

ACTION_LABELS == {"STRONG BUY", "BUY", "SPECULATIVE / WATCH", "WATCH", "HOLD", "REVIEW SELL"}

Rows(t) == {t[i] : i \in 1..Len(t)}

Returned == run >= 1

\* Column c is present on row o and true.
Has(o, c) == c \in o.index /\ o[c]

\* The quality flags with their REQUIRE_PASS_* toggles, in reporting order.
RequiredOrder ==
    << <<"pass_debt", cfg.REQUIRE_PASS_DEBT>>,
       <<"pass_interest_cover", cfg.REQUIRE_PASS_INTEREST>>,
       <<"pass_fcf", cfg.REQUIRE_PASS_FCF>>,
       <<"pass_roic", cfg.REQUIRE_PASS_ROIC>>,
       <<"pass_payout", cfg.REQUIRE_PASS_PAYOUT>> >>

\* The flags of row o that are required and not true.
FailedRequired(o) ==
    LET hit == SelectSeq(RequiredOrder, LAMBDA p : p[2] /\ ~Has(o, p[1]))
    IN  [i \in 1..Len(hit) |-> hit[i][1]]

ScoreOk(o) == "score" \in o.index /\ notna(o.score) /\ o.score.v >= cfg.SCORE_BUY_MIN

\* Row o passes every gate of a buy except the required checks.
Eligible(o) ==
    /\ Has(o, "QUALITY_PASS")
    /\ Has(o, "ENTRY_PERMITTED")
    /\ (Has(o, "BUY_CANDIDATE") \/ ScoreOk(o))
    /\ (o.dd_norm.nan \/ o.dd_norm.v <= cfg.DD_BUY)

--------------------------------------------------------------------------
\* C1: every record of a returned table carries one ACTION of the closed set
\* of six labels, BUY_SIGNAL is true exactly for BUY and STRONG BUY, and
\* SELL_SIGNAL exactly for REVIEW SELL, so the two are never both true.
C1_ActionAndSignals ==
    Returned =>
      /\ Len(out) = Len(df)
      /\ \A o \in Rows(out) :
           /\ o.ACTION \in ACTION_LABELS
           /\ o.BUY_SIGNAL <=> o.ACTION \in {"BUY", "STRONG BUY"}
           /\ o.SELL_SIGNAL <=> o.ACTION = "REVIEW SELL"
           /\ ~(o.BUY_SIGNAL /\ o.SELL_SIGNAL)

C1_Witness ==
    /\ run = 1
    /\ \E a, b, c \in Rows(out) :
         /\ a.ACTION = "STRONG BUY" /\ a.BUY_SIGNAL
         /\ b.ACTION = "REVIEW SELL" /\ b.SELL_SIGNAL
         /\ c.ACTION = "WATCH" /\ ~c.BUY_SIGNAL /\ ~c.SELL_SIGNAL

\* C2: with every recognised column present, a record is REVIEW SELL exactly
\* when QUALITY_PASS is false or a required quality flag is not true; then
\* REASON_BUY is empty and REASON_SELL and FAILED_CHECKS are "QUALITY_PASS=FALSE"
\* if QUALITY_PASS is false, else the failed flags joined by " / " in the order
\* pass_debt, pass_interest_cover, pass_fcf, pass_roic, pass_payout.
C2_ReviewSell ==
    (Returned /\ cols = EXPECTED_COLUMNS) =>
      \A o \in Rows(out) :
        LET failed == FailedRequired(o)
            reason == IF ~o.QUALITY_PASS THEN <<"QUALITY_PASS=FALSE">>
                      ELSE Join(" / ", failed)
        IN  /\ o.ACTION = "REVIEW SELL" <=> (~o.QUALITY_PASS \/ failed # <<>>)
            /\ o.ACTION = "REVIEW SELL" =>
                 /\ o.REASON_BUY = <<>>
                 /\ o.REASON_SELL = reason
                 /\ o.FAILED_CHECKS = reason

C2_Witness ==
    /\ run = 1
    /\ cols = EXPECTED_COLUMNS
    /\ \E o \in Rows(out) :
         /\ o.ACTION = "REVIEW SELL"
         /\ o.QUALITY_PASS
         /\ o.REASON_SELL = <<"pass_debt", " / ", "pass_fcf", " / ", "pass_payout">>

\* C3 (as claimed): a record that passes every gate of a buy but has a
\* required quality flag failing is SPECULATIVE / WATCH when ALLOW_SPECULATIVE
\* is true, with FAILED_CHECKS the failed flags joined by " / ".
C3_Speculative ==
    Returned =>
      \A o \in Rows(out) :
        (Eligible(o) /\ FailedRequired(o) # <<>> /\ cfg.ALLOW_SPECULATIVE) =>
          /\ o.ACTION = "SPECULATIVE / WATCH"
          /\ o.FAILED_CHECKS = Join(" / ", FailedRequired(o))

\* C4 (as claimed): for every configuration a record with ENTRY_PERMITTED
\* false, QUALITY_PASS true and pass_fcf false is WATCH, with pass_fcf in
\* REASON_SELL and FAILED_CHECKS.
C4_WatchEntryDenied ==
    Returned =>
      \A o \in Rows(out) :
        ( /\ "ENTRY_PERMITTED" \in o.index /\ ~o.ENTRY_PERMITTED
          /\ Has(o, "QUALITY_PASS")
          /\ "pass_fcf" \in o.index /\ ~o.pass_fcf ) =>
          /\ o.ACTION = "WATCH"
          /\ "pass_fcf" \in Rows(o.REASON_SELL)
          /\ "pass_fcf" \in Rows(o.FAILED_CHECKS)

\* C4 (amended): for every configuration a record with ENTRY_PERMITTED true,
\* QUALITY_PASS true and pass_fcf false, no required quality flag failing and
\* not buy-eligible, is WATCH with pass_fcf in REASON_SELL and FAILED_CHECKS;
\* a record whose ENTRY_PERMITTED is not true is never WATCH: it is REVIEW SELL
\* or HOLD.
C4_WatchEntryPermitted ==
    Returned =>
      \A o \in Rows(out) :
        /\ ( /\ Has(o, "ENTRY_PERMITTED")
             /\ Has(o, "QUALITY_PASS")
             /\ "pass_fcf" \in o.index /\ ~o.pass_fcf
             /\ FailedRequired(o) = <<>>
             /\ ~Eligible(o) ) =>
             /\ o.ACTION = "WATCH"
             /\ "pass_fcf" \in Rows(o.REASON_SELL)
             /\ "pass_fcf" \in Rows(o.FAILED_CHECKS)
        /\ ~Has(o, "ENTRY_PERMITTED") => o.ACTION \in {"REVIEW SELL", "HOLD"}

C4_Witness ==
    /\ run = 1
    /\ \E o \in Rows(out) :
         /\ Has(o, "ENTRY_PERMITTED") /\ Has(o, "QUALITY_PASS")
         /\ "pass_fcf" \in o.index /\ ~o.pass_fcf
         /\ ~cfg.REQUIRE_PASS_FCF
         /\ o.ACTION = "WATCH"
         /\ o.FAILED_CHECKS = <<"pass_fcf">>

\* The ACTION compute_actions gives the one-row table <<r>>.
ActionOf(r, index) == compute_actions(<<r>>, index, cfg)[1].ACTION

\* C5 (as claimed): replacing one recognised field of a record by a missing
\* or unparsable value never turns an ACTION other than BUY / STRONG BUY into
\* BUY or STRONG BUY.
C5_FailClosed ==
    run = 1 =>
      \A i \in 1..Len(df) :
        \A c \in cols \cap (BOOL_COLS \cup NUM_COLS), bad \in BadCells :
          ActionOf([df[i] EXCEPT ![c] = bad], cols) \in {"BUY", "STRONG BUY"}
            => ActionOf(df[i], cols) \in {"BUY", "STRONG BUY"}

\* The ACTION of every ticker of table t.
ActionsByTicker(t) == {<<o.ticker, o.ACTION>> : o \in Rows(t)}

\* C6 (as claimed): a table that lacks QUALITY_PASS, ENTRY_PERMITTED or
\* BUY_CANDIDATE gives every record the ACTION of the same table with that
\* column present and false in every row; without QUALITY_PASS every record
\* is REVIEW SELL.
C6_MissingIsFalse ==
    run = 1 =>
      /\ \A c \in {"QUALITY_PASS", "ENTRY_PERMITTED", "BUY_CANDIDATE"} \ cols :
           ActionsByTicker(out) =
             ActionsByTicker(compute_actions(
                 [i \in 1..Len(df) |-> [df[i] EXCEPT ![c] = PyBool(FALSE)]],
                 cols \cup {c}, cfg))
      /\ "QUALITY_PASS" \notin cols => \A o \in Rows(out) : o.ACTION = "REVIEW SELL"

\* The converted columns of an output row.
InputPart(o) == [c \in EXPECTED_COLUMNS \cup {"index", "dd_norm"} |-> o[c]]

\* C7: the returned table holds exactly the input records, and in it no
\* record without BUY_SIGNAL precedes one with it; among records without
\* BUY_SIGNAL none that is not REVIEW SELL precedes a REVIEW SELL; and, when
\* the score column is present, among records equal on both signals no lower
\* or not-a-number score precedes a higher score.
C7_Sorted ==
    Returned =>
      /\ Len(out) = Len(df)
      /\ \A i \in 1..Len(df) :
           Cardinality({j \in 1..Len(out) : InputPart(out[j]) = Normalize(df[i], cols)}) = 1
      /\ \A i, j \in 1..Len(out) :
           i < j =>
             /\ ~(~out[i].BUY_SIGNAL /\ out[j].BUY_SIGNAL)
             /\ (~out[i].BUY_SIGNAL /\ ~out[j].BUY_SIGNAL) =>
                  ~(out[i].ACTION # "REVIEW SELL" /\ out[j].ACTION = "REVIEW SELL")
             /\ ( /\ "score" \in cols
                  /\ out[i].BUY_SIGNAL = out[j].BUY_SIGNAL
                  /\ out[i].SELL_SIGNAL = out[j].SELL_SIGNAL
                  /\ notna(out[j].score) ) =>
                  (notna(out[i].score) /\ out[i].score.v >= out[j].score.v)

\* A table of three BUY records returned in the order score 70, score 65,
\* no score, which is not the order they came in.
C7_Witness ==
    /\ run = 1
    /\ "score" \in cols
    /\ Len(out) = 3
    /\ \A i \in 1..3 : out[i].BUY_SIGNAL
    /\ out[1].score = Num(70 * Scale) /\ out[2].score = Num(65 * Scale) /\ out[3].score = NaN
    /\ out[1].ticker = <<"T", "3">>
    /\ out[3].ticker = <<"T", "1">>

\* C8: run again, with the same configuration, on the recognised columns of
\* its own output, compute_actions gives every record the ACTION of the
\* first run.
C8_Idempotent ==
    run = 2 =>
      /\ Len(out) = Len(first)
      /\ ActionsByTicker(out) = ActionsByTicker(first)

\* The second run has returned for a record whose drawdown came as a whole
\* percentage of -100 or deeper, which the first run scaled to a fraction.
C8_Witness ==
    /\ run = 2
    /\ \E i \in 1..Len(df), o \in Rows(out) :
         /\ df[i].drawdown_from_52w_high = DdFull
         /\ o.drawdown_from_52w_high = Num(-100 * Scale)
         /\ o.dd_norm = Num(-1 * Scale)
         /\ o.ACTION = "STRONG BUY"

\* C9: for every configuration, DD_STRONG > DD_BUY included, a buy-eligible
\* record with no required quality flag failing is STRONG BUY exactly when its
\* normalised drawdown is a number <= DD_STRONG, and BUY otherwise; a record
\* whose normalised drawdown is not a number is never STRONG BUY, and every
\* STRONG BUY has a normalised drawdown <= DD_BUY and <= DD_STRONG.
C9_StrongBuy ==
    Returned =>
      \A o \in Rows(out) :
        /\ (Eligible(o) /\ FailedRequired(o) = <<>>) =>
              o.ACTION = IF notna(o.dd_norm) /\ o.dd_norm.v <= cfg.DD_STRONG
                         THEN "STRONG BUY" ELSE "BUY"
        /\ o.ACTION = "STRONG BUY" =>
              /\ notna(o.dd_norm)
              /\ o.dd_norm.v <= cfg.DD_BUY
              /\ o.dd_norm.v <= cfg.DD_STRONG

\* Under DD_STRONG > DD_BUY a drawdown given as -35 is a STRONG BUY.
C9_Witness ==
    /\ run = 1
    /\ cfg.DD_STRONG > cfg.DD_BUY
    /\ \E o \in Rows(out) :
         /\ o.drawdown_from_52w_high = Num(-35 * Scale)
         /\ o.dd_norm = Num(-3500)
         /\ o.ACTION = "STRONG BUY"

\* C10: every record with BUY_SIGNAL has ENTRY_PERMITTED and QUALITY_PASS
\* present and true, every required quality flag true, BUY_CANDIDATE true or a
\* numeric score >= SCORE_BUY_MIN, and a normalised drawdown that is not a
\* number or is <= DD_BUY.
C10_BuySignalGates ==
    Returned =>
      \A o \in Rows(out) :
        o.BUY_SIGNAL =>
          /\ Has(o, "ENTRY_PERMITTED")
          /\ Has(o, "QUALITY_PASS")
          /\ FailedRequired(o) = <<>>
          /\ (Has(o, "BUY_CANDIDATE") \/ ScoreOk(o))
          /\ (o.dd_norm.nan \/ o.dd_norm.v <= cfg.DD_BUY)

\* A BUY on the score alone, with no drawdown figure.
C10_Witness ==
    /\ run = 1
    /\ \E o \in Rows(out) :
         /\ o.BUY_SIGNAL
         /\ ~Has(o, "BUY_CANDIDATE")
         /\ o.score = Num(cfg.SCORE_BUY_MIN)
         /\ o.dd_norm.nan

==========================================================================
